---- MODULE Spec2Model ----
\* Seat-allocation engine of the auditorium booking server: the seat registry,
\* the booking store, and the approve / reject / intake / inventory handlers of
\* src/server/routes/seats.js, run against a document store with snapshot
\* transactions (first writer wins) as the handlers use it.
EXTENDS Integers, Sequences, FiniteSets, TLC

\* ---------------------------------------------------------------- bounds
\* Bookings the intake may create.
MaxBookings == 2

\* Bound on the number of stored attachments.
MaxFiles == 3

\* Request slots: an approve or reject call in flight occupies one.
Procs == {1, 2}

\* Slots the general specification dispatches calls to: one approve or reject
\* call at a time, interleaved step by step with the seat routes and the
\* intake. Two calls racing each other are the subject of SpecRace.
CallSlots == {1}

\* Request slots of the inventory route: one call is in flight at a time.
InitSlots == {1}

\* ---------------------------------------------------------------- strings
\* A string is a sequence of one-character strings.
NULL == 0

Digits == <<"0", "1", "2", "3", "4", "5", "6", "7", "8", "9">>

\* String.prototype.toUpperCase on one character (the letters the inputs use).
UpperChar(c) ==
  CASE c = "a" -> "A"
    [] c = "k" -> "K"
    [] c = "z" -> "Z"
    [] OTHER -> c

toUpperCase(s) == [i \in 1..Len(s) |-> UpperChar(s[i])]

\* String.prototype.toLowerCase on one character (the letters the inputs use).
LowerChar(c) ==
  CASE c = "A" -> "a"
    [] c = "B" -> "b"
    [] c = "K" -> "k"
    [] c = "Z" -> "z"
    [] OTHER -> c

toLowerCase(s) == [i \in 1..Len(s) |-> LowerChar(s[i])]

IsDigit(c) == \E d \in 1..10 : Digits[d] = c

DigitValue(c) == (CHOOSE d \in 1..10 : Digits[d] = c) - 1

\* The value of a non-empty string of decimal digits.
RECURSIVE DigitsValue(_)
DigitsValue(s) ==
  IF s = <<>> THEN 0
  ELSE 10 * DigitsValue(SubSeq(s, 1, Len(s) - 1)) + DigitValue(s[Len(s)])

AllDigits(s) == \A i \in 1..Len(s) : IsDigit(s[i])

\* Template-literal rendering of a positive integer: its decimal digits.
RECURSIVE NumToStr(_)
NumToStr(n) ==
  IF n < 10 THEN <<Digits[n + 1]>>
  ELSE NumToStr(n \div 10) \o <<Digits[(n % 10) + 1]>>

\* String.prototype.trim.
RECURSIVE TrimLeft(_)
TrimLeft(s) == IF s # <<>> /\ Head(s) = " " THEN TrimLeft(Tail(s)) ELSE s

RECURSIVE TrimRight(_)
TrimRight(s) ==
  IF s # <<>> /\ s[Len(s)] = " " THEN TrimRight(SubSeq(s, 1, Len(s) - 1)) ELSE s

trim(s) == TrimRight(TrimLeft(s))

\* String.prototype.split(","): the pieces between commas, empty ones included.
RECURSIVE SplitFrom(_, _, _)
SplitFrom(s, i, cur) ==
  IF i > Len(s) THEN <<cur>>
  ELSE IF s[i] = "," THEN <<cur>> \o SplitFrom(s, i + 1, <<>>)
  ELSE SplitFrom(s, i + 1, Append(cur, s[i]))

split(s) == SplitFrom(s, 1, <<>>)

Range(s) == {s[i] : i \in 1..Len(s)}

\* Array.prototype.filter(Boolean) on strings: the empty ones are dropped.
RECURSIVE FilterNonEmpty(_)
FilterNonEmpty(s) ==
  IF s = <<>> THEN <<>>
  ELSE IF Head(s) # <<>> THEN <<Head(s)>> \o FilterNonEmpty(Tail(s))
  ELSE FilterNonEmpty(Tail(s))

\* Variant: the pieces are not trimmed.
ParseSeatLabelsNoTrim(seatsRaw) ==
  LET parts == split(seatsRaw)
  IN FilterNonEmpty([i \in 1..Len(parts) |-> toUpperCase(parts[i])])

\* seatsRaw.split(",").map(s => s.trim().toUpperCase()).filter(Boolean)
ParseSeatLabels(seatsRaw) ==
  LET parts == split(seatsRaw)
  IN FilterNonEmpty([i \in 1..Len(parts) |-> toUpperCase(trim(parts[i]))])

\* An unsigned run of digits, as a number.
Unsigned(t) ==
  IF t # <<>> /\ AllDigits(t) THEN [nan |-> FALSE, v |-> DigitsValue(t)]
  ELSE [nan |-> TRUE, v |-> 0]

\* Number(text) for decimal integers: surrounding white space is dropped, the
\* empty string is 0, an optionally signed run of digits is its value,
\* anything else is NaN.
Number(text) ==
  LET t == trim(text)
  IN IF t = <<>> THEN [nan |-> FALSE, v |-> 0]
     ELSE IF Head(t) = "-"
     THEN [nan |-> Unsigned(Tail(t)).nan, v |-> 0 - Unsigned(Tail(t)).v]
     ELSE IF Head(t) = "+" THEN Unsigned(Tail(t))
     ELSE Unsigned(t)

\* ---------------------------------------------------------------- seat registry
premiumRows == {<<c>> : c \in {"K", "L", "M", "N", "O", "P", "Q", "R", "S", "T"}}

\* Variant: every row is primary.
rowToTypeAllPrimary(row) == "primary"

rowToType(row) == IF toUpperCase(row) \in premiumRows THEN "premium" ELSE "primary"

SeatLabel(r, n) == r \o NumToStr(n)

\* Index in the registry of the seat with this label, 0 when there is none
\* (label is a unique key).
SeatIdOf(reg, label) ==
  IF \E i \in 1..Len(reg) : reg[i].label = label
  THEN CHOOSE i \in 1..Len(reg) : reg[i].label = label
  ELSE 0

\* Variant: status and occupant are in $set, so an existing seat is reset.
UpsertSeatReset(reg, r, n) ==
  LET label == SeatLabel(r, n)
      i == SeatIdOf(reg, label)
      doc == [label |-> label, row |-> r, number |-> n, type |-> rowToType(r),
              status |-> "available", occupiedByBookingId |-> NULL]
  IN IF i = 0 THEN Append(reg, doc) ELSE [reg EXCEPT ![i] = doc]

\* One updateOne of the bulk: upsert by label; $set the structural fields,
\* $setOnInsert status and occupant.
UpsertSeat(reg, r, n) ==
  LET label == SeatLabel(r, n)
      i == SeatIdOf(reg, label)
  IN IF i = 0
     THEN Append(reg, [label |-> label, row |-> r, number |-> n, type |-> rowToType(r),
                       status |-> "available", occupiedByBookingId |-> NULL])
     ELSE [reg EXCEPT ![i].row = r, ![i].number = n, ![i].type = rowToType(r)]

\* The bulk list the inventory call builds: rows in list order, numbers
\* ascending within a row.
BulkOf(rows, perRow) ==
  [k \in 1..(Len(rows) * perRow) |->
     <<rows[((k - 1) \div perRow) + 1], ((k - 1) % perRow) + 1>>]

\* The registry after the updates of a bulk from position k on, those at the
\* positions in skip left out, are applied to reg one after the other.
RECURSIVE ApplyUpdates(_, _, _, _)
ApplyUpdates(reg, bulk, k, skip) ==
  IF k > Len(bulk) THEN reg
  ELSE ApplyUpdates(IF k \in skip THEN reg ELSE UpsertSeat(reg, bulk[k][1], bulk[k][2]),
                    bulk, k + 1, skip)

\* ---------------------------------------------------------------- inputs
\* Row lists of an inventory call (req.body.rows), before upper-casing.
RowLists == {<<<<"k">>>>, <<<<"k">>, <<"A">>>>}

\* Seats per row of an inventory call (req.body.perRow).
PerRowInputs == {1}

\* Schemes (rows, perRow) of the inventory calls explored on their own from
\* the empty registry: two plain rows, one lower-case row, one row written in
\* both cases, a premium pair.
InventorySchemes ==
  { << << <<"A">>, <<"B">> >>, 3 >>,
    << << <<"z">> >>, 3 >>,
    << << <<"a">>, <<"A">> >>, 1 >>,
    << << <<"k">>, <<"T">> >>, 1 >> }

\* Longer calls, each taken up in a state it passes through: <<rows, perRow,
\* the positions in its bulk of the updates the store has not applied yet>>.
\* Rows A, B with 5 per row; and rows A, A1 with 11 per row, where row A with
\* number 11 and row A1 with number 1 both spell the label A11 (eleven per row
\* is the least count at which two rows collide), with A10, the two updates
\* of A11, and A12 to come.
CallsInFlight ==
  { << << <<"A">>, <<"B">> >>, 5, {4, 5, 6, 10} >>,
    << << <<"A">>, <<"A", "1">> >>, 11, {10, 11, 12, 13} >> }

\* Seat labels of the manual occupy / release routes (req.params.label).
LabelInputs == {<<"a", "1">>, <<"Z", "9">>}

\* The seats field of an intake request (req.body.seats).
SeatsRawInputs ==
  { <<"A", "1">>,
    <<"K", "1", ",", " ", "a", "1">>,
    <<"a", "1", ",", "A", "1">>,
    <<"A", "1", ",", "Z", "9">> }

\* An uploaded file as multer hands it over, or none.
NoFile == [present |-> FALSE, mimetype |-> "", size |-> 0]

PngFile == [present |-> TRUE, mimetype |-> "image/png", size |-> 1024]

PdfFile == [present |-> TRUE, mimetype |-> "application/pdf", size |-> 1024]

BigFile == [present |-> TRUE, mimetype |-> "image/jpeg", size |-> 6 * 1024 * 1024]

GoodEmail == <<"A", "@", "b", ".", "z">>

GoodPhone == <<"9", "8", "7", "6", "5", "4", "3", "2", "1", "0">>

\* A well-formed submission asking for the seats written in seatsRaw.
GoodRequest(seatsRaw) ==
  [email |-> GoodEmail, phone |-> GoodPhone, amount |-> <<"5", "0">>,
   seats |-> seatsRaw, file |-> PngFile]

\* Submissions of every kind, each differing from a well-formed one in one
\* field: seats naming some seat, only separators, or missing; contact
\* malformed, padded or missing; amount zero, negative or not a number; file
\* not an image, too large, or none.
IntakeRequests ==
  {GoodRequest(raw) : raw \in SeatsRawInputs \cup {<<",">>, <<" ", ",", ",">>, <<>>}}
    \cup {[GoodRequest(<<"A", "1">>) EXCEPT !.email = e] :
            e \in {<<"a", "@", "b">>, <<>>}}
    \cup {[GoodRequest(<<"A", "1">>) EXCEPT !.phone = ph] :
            ph \in {<<" ", "+", "9", "1">> \o GoodPhone, <<"1", "2", "3">>}}
    \cup {[GoodRequest(<<"A", "1">>) EXCEPT !.amount = am] :
            am \in {<<"0">>, <<"-", "5">>, <<"x">>}}
    \cup {[GoodRequest(<<"A", "1">>) EXCEPT !.file = f] :
            f \in {PdfFile, BigFile, NoFile}}

\* Booking ids a caller may name: every id the store can hold (an id above the
\* number of stored bookings names no booking).
BookingIds == 1..MaxBookings

\* ---------------------------------------------------------------- state
VARIABLES
  seats,      \* Seat collection, in insertion order; a seat's _id is its index
  bookings,   \* Booking collection; a booking's _id is its index
  proc,       \* per request slot: the approve / reject call in flight
  files,      \* ids of the attachments stored in the uploads bucket
  intake,     \* the intake request in flight and the last intake response
  initCalls   \* per request slot: the inventory call in flight, its last answer

vars == <<seats, bookings, proc, files, intake, initCalls>>

\* What the approve, reject and manual seat routes never touch.
intakeVars == <<files, intake>>

NoRes == [code |-> 0, error |-> "", labels |-> <<>>, status |-> ""]

NoRequest ==
  [email |-> <<>>, phone |-> <<>>, amount |-> <<>>, seats |-> <<>>, file |-> NoFile]

NoIntakeRes == [code |-> 0, error |-> "", bookingId |-> 0]

IdleIntake == [pc |-> "idle", req |-> NoRequest, fileId |-> 0, res |-> NoIntakeRes]

\* The body of an inventory request; NoScheme before any call.
Scheme(rows, perRow) == [rows |-> rows, perRow |-> perRow]

NoScheme == Scheme(<<>>, 0)

\* The request and the answer of the call a slot ran before its present one.
NoExchange == [req |-> NoScheme, total |-> NULL]

\* An inventory slot with no call in flight: before any call, and after the
\* call of req answered total. A call in flight holds its bulk (one
\* <<row, number>> per updateOne, in the order it was built) and the positions
\* of the updates the store has not applied yet. Two fields are history, read
\* by no handler: prev, the slot's previous request and answer, and held, the
\* bookings whose seats the updates of the call found occupied and linked.
IdleInit ==
  [pc |-> "idle", req |-> NoScheme, total |-> NULL, bulk |-> <<>>, pending |-> {},
   prev |-> NoExchange, held |-> {}]

InitDone(req, total) == [IdleInit EXCEPT !.req = req, !.total = total]

IdleProc ==
  [op |-> "idle", pc |-> "idle", id |-> 0, snapSeats |-> <<>>, found |-> <<>>,
   saved |-> 0, stale |-> {}, res |-> NoRes]

\* Positions of an approve call between its first read and its commit or abort:
\* the transaction holds a snapshot.
TxnPcs == {"findSeats", "saveSeat", "saveBooking", "commit"}

InTxn(p) == proc[p].op = "approve" /\ proc[p].pc \in TxnPcs

SeatDoc(i) == <<"seat", i>>
BookingDoc(i) == <<"booking", i>>

\* Documents written, not yet committed, by the transaction of slot q.
WriteSet(q) ==
  IF InTxn(q)
  THEN {SeatDoc(proc[q].found[k]) : k \in 1..proc[q].saved}
         \cup (IF proc[q].pc = "commit" THEN {BookingDoc(proc[q].id)} ELSE {})
  ELSE {}

\* d carries an uncommitted write of a transaction other than p's
\* (p = 0: of any transaction).
Locked(d, p) == \E q \in Procs : q # p /\ d \in WriteSet(q)

\* A write to d inside p's transaction conflicts when d was committed by another
\* writer after p's snapshot, or another transaction has written it.
WriteConflict(p, d) == d \in proc[p].stale \/ Locked(d, p)

\* The documents D were committed by a writer other than slot p: every other
\* open transaction's snapshot no longer covers them.
MarkStale(pr, D, p) ==
  [q \in Procs |->
     IF q # p /\ pr[q].op = "approve" /\ pr[q].pc \in TxnPcs
     THEN [pr[q] EXCEPT !.stale = @ \cup D]
     ELSE pr[q]]

Init ==
  /\ seats = <<>>
  /\ bookings = <<>>
  /\ proc = [p \in Procs |-> IdleProc]
  /\ files = {}
  /\ intake = IdleIntake
  /\ initCalls = [s \in InitSlots |-> IdleInit]

\* ---------------------------------------------------------------- seat routes
\* req.body.rows.map(r => String(r).toUpperCase())
UpperRows(rows) == [i \in 1..Len(rows) |-> toUpperCase(rows[i])]

\* POST /api/seats/init with rows and perRow given, up to the call of
\* Seat.bulkWrite: the rows are upper-cased and the bulk is handed to the
\* store; nothing is written yet.
InitializeInventory(s, rows, perRow) ==
  LET bulk == BulkOf(UpperRows(rows), perRow)
  IN /\ initCalls[s].pc = "idle"
     /\ initCalls' = [initCalls EXCEPT ![s] =
          [pc |-> "bulk", req |-> Scheme(rows, perRow), total |-> NULL,
           bulk |-> bulk, pending |-> 1..Len(bulk),
           prev |-> [req |-> @.req, total |-> @.total], held |-> {}]]
     /\ UNCHANGED <<seats, bookings, proc, intakeVars>>

\* The store applies update k of the bulk of slot s, a write of its own:
\* with ordered: false any pending update may come next. An update that
\* rewrites a stored seat (another row and number spell its label) waits
\* while a transaction holds that seat; the others go on. With the last
\* update bulkWrite returns and the call goes on to countDocuments.
BulkUpsert(s, k) ==
  /\ initCalls[s].pc = "bulk" /\ k \in initCalls[s].pending
  /\ LET r == initCalls[s].bulk[k][1]
         n == initCalls[s].bulk[k][2]
         i == SeatIdOf(seats, SeatLabel(r, n))
         met == IF i # 0 /\ seats[i].status = "occupied"
                        /\ seats[i].occupiedByBookingId # NULL
                THEN {seats[i].occupiedByBookingId} ELSE {}
     IN /\ seats' = UpsertSeat(seats, r, n)
        /\ IF i # 0 /\ seats'[i] # seats[i]
           THEN /\ ~Locked(SeatDoc(i), 0)
                /\ proc' = MarkStale(proc, {SeatDoc(i)}, 0)
           ELSE proc' = proc
        /\ initCalls' = [initCalls EXCEPT ![s] =
             IF @.pending = {k}
             THEN [@ EXCEPT !.pc = "count", !.bulk = <<>>, !.pending = {},
                            !.held = @ \cup met]
             ELSE [@ EXCEPT !.pending = @ \ {k}, !.held = @ \cup met]]
  /\ UNCHANGED <<bookings, intakeVars>>

\* Seat.countDocuments() settles and the call answers the total: the number
\* of seats stored at that moment.
CountDocuments(s) ==
  /\ initCalls[s].pc = "count"
  /\ initCalls' = [initCalls EXCEPT ![s].pc = "idle", ![s].total = Len(seats)]
  /\ UNCHANGED <<seats, bookings, proc, intakeVars>>

\* A document after {$set: set}: the named fields replaced, the others kept.
ApplySet(doc, set) ==
  [f \in DOMAIN doc |-> IF f \in DOMAIN set THEN set[f] ELSE doc[f]]

\* findOneAndUpdate({label}, {$set: set}) outside any transaction: waits for a
\* transaction that has written the seat; an update that changes nothing
\* writes nothing.
UpdateSeatByLabel(label, set) ==
  LET i == SeatIdOf(seats, label)
  IN IF i = 0 \/ ApplySet(seats[i], set) = seats[i]
     THEN UNCHANGED <<seats, proc>>
     ELSE /\ ~Locked(SeatDoc(i), 0)
          /\ seats' = [seats EXCEPT ![i] = ApplySet(seats[i], set)]
          /\ proc' = MarkStale(proc, {SeatDoc(i)}, 0)

\* PATCH /api/seats/:label/occupy
OccupySeat(rawLabel) ==
  /\ UpdateSeatByLabel(toUpperCase(rawLabel), [status |-> "occupied"])
  /\ UNCHANGED <<bookings, intakeVars, initCalls>>

\* PATCH /api/seats/:label/release
ReleaseSeat(rawLabel) ==
  /\ UpdateSeatByLabel(toUpperCase(rawLabel),
                       [status |-> "available", occupiedByBookingId |-> NULL])
  /\ UNCHANGED <<bookings, intakeVars, initCalls>>

\* ---------------------------------------------------------------- intake
\* upload.single("screenshot"): the multer file filter and size limit.
fileSize == 5 * 1024 * 1024

ImageMimeTypes == {"image/png", "image/jpg", "image/jpeg", "image/webp", "image/gif"}

fileFilter(file) == file.mimetype \in ImageMimeTypes

\* BookingSchema.email match: /^[^\s@]+@[^\s@]+\.[^\s@]+$/
EmailMatch(s) ==
  \E a \in 2..Len(s) :
    /\ s[a] = "@"
    /\ \A i \in 1..Len(s) : i # a => s[i] \notin {"@", " "}
    /\ \E d \in (a + 2)..(Len(s) - 1) : s[d] = "."

\* [6-9]\d{9}
MobileMatch(s) ==
  Len(s) = 10 /\ s[1] \in {"6", "7", "8", "9"} /\ AllDigits(s)

\* BookingSchema.phone match: /^(\+?91)?[6-9]\d{9}$|^\d{10}$/
PhoneMatch(s) ==
  \/ MobileMatch(s)
  \/ Len(s) = 12 /\ SubSeq(s, 1, 2) = <<"9", "1">> /\ MobileMatch(SubSeq(s, 3, 12))
  \/ Len(s) = 13 /\ SubSeq(s, 1, 3) = <<"+", "9", "1">> /\ MobileMatch(SubSeq(s, 4, 13))
  \/ Len(s) = 10 /\ AllDigits(s)

\* The document Booking.create builds: the schema setters (trim, lowercase)
\* applied, seatIds defaulted to the empty list.
BookingSchema(email, phone, amount, seatLabels, fileId) ==
  [email |-> toLowerCase(trim(email)), phone |-> trim(phone), amount |-> amount,
   seatLabels |-> seatLabels, seatIds |-> <<>>, screenshotFileId |-> fileId,
   status |-> "pending"]

\* The schema validators Booking.create runs before inserting: required and
\* match on email and phone, min 1 on amount. A list passes required even
\* when it is empty.
Validates(doc) ==
  /\ doc.email # <<>> /\ EmailMatch(doc.email)
  /\ doc.phone # <<>> /\ PhoneMatch(doc.phone)
  /\ doc.amount >= 1
  /\ doc.screenshotFileId # NULL

IntakeRes(code, error, bookingId) ==
  [code |-> code, error |-> error, bookingId |-> bookingId]

\* The intake request req has been answered with res.
IntakeDone(req, res) == [IdleIntake EXCEPT !.req = req, !.res = res]

\* POST /api/bookings up to the start of the upload: multer takes the file,
\* the handler checks that every field is present and opens the upload stream
\* (which allots the id of the file).
CreatePendingBooking(req) ==
  /\ intake.pc = "idle"
  /\ Len(bookings) < MaxBookings
  /\ Cardinality(files) < MaxFiles
  /\ LET amount == Number(req.amount)
     IN IF req.file.present /\ ~fileFilter(req.file)
        THEN intake' = IntakeDone(req, IntakeRes(500, "Only image files allowed (png, jpg, jpeg, webp, gif).", 0))
        ELSE IF req.file.present /\ req.file.size > fileSize
        THEN intake' = IntakeDone(req, IntakeRes(500, "File too large", 0))
        ELSE IF \/ req.email = <<>> \/ req.phone = <<>>
                \/ amount.nan \/ amount.v = 0
                \/ req.seats = <<>> \/ ~req.file.present
        THEN intake' = IntakeDone(req, IntakeRes(400,
               "email, phone, amount, seats, and screenshot are required", 0))
        ELSE intake' = [pc |-> "uploading", req |-> req,
                        fileId |-> Cardinality(files) + 1, res |-> NoIntakeRes]
  /\ UNCHANGED <<seats, bookings, proc, files, initCalls>>

\* uploadStream "finish": the file is stored in the bucket and the finish
\* handler starts; it calls Booking.create and waits for it.
UploadFinish ==
  /\ intake.pc = "uploading"
  /\ files' = files \cup {intake.fileId}
  /\ intake' = [intake EXCEPT !.pc = "creating"]
  /\ UNCHANGED <<seats, bookings, proc, initCalls>>

\* Booking.create settles: it validates and inserts the booking (201), or
\* throws (validation, or the store refusing: fail) and the catch answers 500.
BookingCreate(fail) ==
  /\ intake.pc = "creating"
  /\ LET req == intake.req
         doc == BookingSchema(req.email, req.phone, Number(req.amount).v,
                              ParseSeatLabels(req.seats), intake.fileId)
     IN IF fail \/ ~Validates(doc)
        THEN /\ intake' = IntakeDone(req, IntakeRes(500, "Failed to save booking after upload", 0))
             /\ UNCHANGED bookings
        ELSE /\ bookings' = Append(bookings, doc)
             /\ intake' = IntakeDone(req, IntakeRes(201, "", Len(bookings) + 1))
  /\ UNCHANGED <<seats, proc, files, initCalls>>

\* Variant: the booking is created although the upload failed.
UploadErrorThenCreate ==
  /\ intake.pc = "uploading"
  /\ LET req == intake.req
     IN /\ bookings' = Append(bookings,
             BookingSchema(req.email, req.phone, Number(req.amount).v,
                           ParseSeatLabels(req.seats), intake.fileId))
        /\ intake' = IntakeDone(req, IntakeRes(500, "Failed to upload screenshot", 0))
  /\ UNCHANGED <<seats, proc, files, initCalls>>

\* uploadStream "error": nothing is stored and no booking is created.
UploadError ==
  /\ intake.pc = "uploading"
  /\ intake' = IntakeDone(intake.req, IntakeRes(500, "Failed to upload screenshot", 0))
  /\ UNCHANGED <<seats, bookings, proc, files, initCalls>>

\* ---------------------------------------------------------------- responses
Res(code, error, labels, status) ==
  [code |-> code, error |-> error, labels |-> labels, status |-> status]

\* No call is in flight in slot p.
FreeSlot(p) == proc[p].pc \in {"idle", "done"}

\* The slot's call has answered; its transaction state is gone.
Done(pr, res) ==
  [pr EXCEPT !.pc = "done", !.snapSeats = <<>>, !.found = <<>>, !.saved = 0,
             !.stale = {}, !.res = res]

\* ---------------------------------------------------------------- approve
\* The router dispatches POST /:id/approve: startSession, startTransaction.
ApproveCall(p, id) ==
  /\ FreeSlot(p)
  /\ proc' = [proc EXCEPT ![p] = [IdleProc EXCEPT !.op = "approve", !.pc = "find", !.id = id]]
  /\ UNCHANGED <<seats, bookings, intakeVars, initCalls>>

\* Booking.findById in the session (the transaction's snapshot is taken here),
\* then the existence and status checks.
ApproveFind(p) ==
  /\ proc[p].op = "approve" /\ proc[p].pc = "find"
  /\ LET id == proc[p].id
     IN proc' = [proc EXCEPT ![p] =
          IF id > Len(bookings)
          THEN Done(@, Res(404, "Booking not found", <<>>, ""))
          ELSE IF bookings[id].status # "pending"
          THEN Done(@, Res(400, "Booking status is", <<>>, bookings[id].status))
          ELSE [@ EXCEPT !.pc = "findSeats", !.snapSeats = seats, !.stale = {}]]
  /\ UNCHANGED <<seats, bookings, intakeVars, initCalls>>

\* Every arrangement of the members of the set S in a sequence.
Orders(S) ==
  {f \in [1..Cardinality(S) -> S] : \A j, k \in 1..Cardinality(S) : f[j] = f[k] => j = k}

\* Variant: the label filter is dropped from the query.
FindSeatsAll(reg, labels) == Orders(1..Len(reg))

\* Seat.find({label: {$in: labels}}) on a registry: the query has no sort,
\* so the store may return the matching seats in any order. The answers the
\* query can give, each the ids of the matching seats in some order.
FindSeats(reg, labels) ==
  Orders({i \in 1..Len(reg) : reg[i].label \in Range(labels)})

\* booking.seatLabels.filter(l => !foundLabels.has(l))
RECURSIVE MissingLabels(_, _)
MissingLabels(labels, foundLabels) ==
  IF labels = <<>> THEN <<>>
  ELSE IF Head(labels) \notin foundLabels
  THEN <<Head(labels)>> \o MissingLabels(Tail(labels), foundLabels)
  ELSE MissingLabels(Tail(labels), foundLabels)

\* Variant: the status filter is dropped, every found seat is reported.
OccupiedLabelsAll(reg, ids) == [k \in 1..Len(ids) |-> reg[ids[k]].label]

\* seats.filter(s => s.status !== "available").map(s => s.label)
RECURSIVE OccupiedLabels(_, _)
OccupiedLabels(reg, ids) ==
  IF ids = <<>> THEN <<>>
  ELSE IF reg[Head(ids)].status # "available"
  THEN <<reg[Head(ids)].label>> \o OccupiedLabels(reg, Tail(ids))
  ELSE OccupiedLabels(reg, Tail(ids))

\* Variant: the occupied check comes before the missing check.
ApproveFindSeatsOccupiedFirst(p) ==
  /\ proc[p].op = "approve" /\ proc[p].pc = "findSeats"
  /\ \E found \in FindSeats(proc[p].snapSeats, bookings[proc[p].id].seatLabels) :
     LET labels == bookings[proc[p].id].seatLabels
         snap == proc[p].snapSeats
         missing == MissingLabels(labels, {snap[i].label : i \in Range(found)})
         occupied == OccupiedLabels(snap, found)
     IN proc' = [proc EXCEPT ![p] =
          IF occupied # <<>>
          THEN Done(@, Res(409, "Seats already occupied", occupied, ""))
          ELSE IF missing # <<>>
          THEN Done(@, Res(400, "Seats not found", missing, ""))
          ELSE [@ EXCEPT !.pc = IF found = <<>> THEN "saveBooking" ELSE "saveSeat",
                         !.found = found, !.saved = 0, !.snapSeats = <<>>]]
  /\ UNCHANGED <<seats, bookings, intakeVars, initCalls>>

\* The seat lookup in the snapshot, answered in one of the orders the store
\* may choose, then the missing and occupied checks. The seats are saved and
\* listed in seatIds in the order of the answer.
ApproveFindSeats(p) ==
  /\ proc[p].op = "approve" /\ proc[p].pc = "findSeats"
  /\ \E found \in FindSeats(proc[p].snapSeats, bookings[proc[p].id].seatLabels) :
     LET labels == bookings[proc[p].id].seatLabels
         snap == proc[p].snapSeats
         missing == MissingLabels(labels, {snap[i].label : i \in Range(found)})
         occupied == OccupiedLabels(snap, found)
     IN proc' = [proc EXCEPT ![p] =
          IF missing # <<>>
          THEN Done(@, Res(400, "Seats not found", missing, ""))
          ELSE IF occupied # <<>>
          THEN Done(@, Res(409, "Seats already occupied", occupied, ""))
          ELSE [@ EXCEPT !.pc = IF found = <<>> THEN "saveBooking" ELSE "saveSeat",
                         !.found = found, !.saved = 0, !.snapSeats = <<>>]]
  /\ UNCHANGED <<seats, bookings, intakeVars, initCalls>>

\* The catch block after a write of the transaction has thrown:
\* abortTransaction, 500.
ApproveFailed(pr) == Done(pr, Res(500, "Approve failed", <<>>, ""))

\* One iteration of the seat loop: seat.save({session}). fail: the store
\* refuses the write.
ApproveSaveSeat(p, fail) ==
  /\ proc[p].op = "approve" /\ proc[p].pc = "saveSeat"
  /\ LET k == proc[p].saved + 1
         d == SeatDoc(proc[p].found[k])
     IN proc' = [proc EXCEPT ![p] =
          IF fail \/ WriteConflict(p, d)
          THEN ApproveFailed(@)
          ELSE [@ EXCEPT !.saved = k,
                         !.pc = IF k = Len(proc[p].found) THEN "saveBooking" ELSE "saveSeat"]]
  /\ UNCHANGED <<seats, bookings, intakeVars, initCalls>>

\* booking.save({session}) with status approved and seatIds set.
ApproveSaveBooking(p, fail) ==
  /\ proc[p].op = "approve" /\ proc[p].pc = "saveBooking"
  /\ proc' = [proc EXCEPT ![p] =
       IF fail \/ WriteConflict(p, BookingDoc(proc[p].id))
       THEN ApproveFailed(@)
       ELSE [@ EXCEPT !.pc = "commit"]]
  /\ UNCHANGED <<seats, bookings, intakeVars, initCalls>>

\* Variant: the commit occupies every seat of the registry.
CommitSeatsAll(reg, found, id) ==
  [i \in 1..Len(reg) |->
     [reg[i] EXCEPT !.status = "occupied", !.occupiedByBookingId = id]]

\* The seat collection after the transaction's seat writes are applied.
CommitSeats(reg, found, id) ==
  [i \in 1..Len(reg) |->
     IF i \in Range(found)
     THEN [reg[i] EXCEPT !.status = "occupied", !.occupiedByBookingId = id]
     ELSE reg[i]]

\* Variant: seatIds is not assigned.
CommitBookingNoSeatIds(b, found) == [b EXCEPT !.status = "approved"]

\* The booking after the transaction's booking write is applied.
CommitBooking(b, found) == [b EXCEPT !.status = "approved", !.seatIds = found]

\* session.commitTransaction() returns: the writes become visible together
\* and the call answers 200.
ApproveCommit(p) ==
  /\ proc[p].op = "approve" /\ proc[p].pc = "commit"
  /\ LET id == proc[p].id
         found == proc[p].found
     IN /\ seats' = CommitSeats(seats, found, id)
        /\ bookings' = [bookings EXCEPT ![id] = CommitBooking(@, found)]
        /\ proc' = [MarkStale(proc, WriteSet(p), p) EXCEPT ![p] =
             Done(@, Res(200, "", bookings[id].seatLabels, ""))]
  /\ UNCHANGED <<intakeVars, initCalls>>

\* What the caller gets when the handler's promise rejects: no answer at all
\* (the router does not pass the rejection on), or the framework's own 500
\* where the framework catches rejected handlers. The fallback handler of
\* server.js is registered before the routers and is not reached.
UnhandledAnswers == {NoRes, Res(500, "Internal Server Error", <<>>, "")}

\* session.commitTransaction() throws. The commit may or may not have been
\* applied by the store (applied). The catch block calls abortTransaction,
\* which throws on a session that has called commitTransaction, so the 500
\* "Approve failed" of the next line is never sent: the handler's promise
\* rejects and the caller gets res.
ApproveCommitThrows(p, applied, res) ==
  /\ proc[p].op = "approve" /\ proc[p].pc = "commit"
  /\ LET id == proc[p].id
         found == proc[p].found
     IN IF applied
        THEN /\ seats' = CommitSeats(seats, found, id)
             /\ bookings' = [bookings EXCEPT ![id] = CommitBooking(@, found)]
             /\ proc' = [MarkStale(proc, WriteSet(p), p) EXCEPT ![p] = Done(@, res)]
        ELSE /\ proc' = [proc EXCEPT ![p] = Done(@, res)]
             /\ UNCHANGED <<seats, bookings>>
  /\ UNCHANGED <<intakeVars, initCalls>>

\* ---------------------------------------------------------------- reject
\* The router dispatches POST /:id/reject.
RejectCall(p, id) ==
  /\ FreeSlot(p)
  /\ proc' = [proc EXCEPT ![p] = [IdleProc EXCEPT !.op = "reject", !.pc = "find", !.id = id]]
  /\ UNCHANGED <<seats, bookings, intakeVars, initCalls>>

\* Variant: the status check is left out.
RejectFindAnyStatus(p) ==
  /\ proc[p].op = "reject" /\ proc[p].pc = "find"
  /\ LET id == proc[p].id
     IN proc' = [proc EXCEPT ![p] =
          IF id > Len(bookings)
          THEN Done(@, Res(404, "Booking not found", <<>>, ""))
          ELSE [@ EXCEPT !.pc = "save"]]
  /\ UNCHANGED <<seats, bookings, intakeVars, initCalls>>

\* Booking.findById outside any transaction, then the two checks.
RejectFind(p) ==
  /\ proc[p].op = "reject" /\ proc[p].pc = "find"
  /\ LET id == proc[p].id
     IN proc' = [proc EXCEPT ![p] =
          IF id > Len(bookings)
          THEN Done(@, Res(404, "Booking not found", <<>>, ""))
          ELSE IF bookings[id].status # "pending"
          THEN Done(@, Res(400, "Booking status is", <<>>, bookings[id].status))
          ELSE [@ EXCEPT !.pc = "save"]]
  /\ UNCHANGED <<seats, bookings, intakeVars, initCalls>>

\* The update booking.save() sends: $set of the modified path, status.
RejectBooking(b) == [b EXCEPT !.status = "rejected"]

\* booking.save() outside any transaction: waits for a transaction that has
\* written the booking, then updates it by _id.
RejectSave(p, fail) ==
  /\ proc[p].op = "reject" /\ proc[p].pc = "save"
  /\ LET id == proc[p].id
     IN IF fail
        THEN /\ proc' = [proc EXCEPT ![p] = Done(@, Res(500, "Reject failed", <<>>, ""))]
             /\ UNCHANGED bookings
        ELSE /\ ~Locked(BookingDoc(id), p)
             /\ bookings' = [bookings EXCEPT ![id] = RejectBooking(@)]
             /\ proc' = [MarkStale(proc, {BookingDoc(id)}, p) EXCEPT ![p] =
                  Done(@, Res(200, "", <<>>, ""))]
  /\ UNCHANGED <<seats, intakeVars, initCalls>>

\* ---------------------------------------------------------------- specifications
\* Every route, with one inventory call (its updates applied in every order),
\* one approve or reject call in flight at a time and well-formed submissions
\* whose upload and booking write succeed. Submissions of other kinds and
\* failing uploads are explored in SpecIntake, two approve or reject calls in
\* flight together in SpecRace, inventory calls one after another in
\* SpecRepeat, longer inventory schemes in SpecInventory.
Next ==
  \/ \E s \in InitSlots, rows \in RowLists, perRow \in PerRowInputs :
       initCalls[s] = IdleInit /\ InitializeInventory(s, rows, perRow)
  \/ \E s \in InitSlots : \E k \in initCalls[s].pending : BulkUpsert(s, k)
  \/ \E s \in InitSlots : CountDocuments(s)
  \/ \E l \in LabelInputs : OccupySeat(l)
  \/ \E l \in LabelInputs : ReleaseSeat(l)
  \/ \E raw \in SeatsRawInputs : CreatePendingBooking(GoodRequest(raw))
  \/ UploadFinish
  \/ BookingCreate(FALSE)
  \/ \E p \in CallSlots, id \in BookingIds : ApproveCall(p, id)
  \/ \E p \in Procs : ApproveFind(p)
  \/ \E p \in Procs : ApproveFindSeats(p)
  \/ \E p \in Procs, fail \in BOOLEAN : ApproveSaveSeat(p, fail)
  \/ \E p \in Procs, fail \in BOOLEAN : ApproveSaveBooking(p, fail)
  \/ \E p \in Procs : ApproveCommit(p)
  \/ \E p \in Procs, applied \in BOOLEAN, res \in UnhandledAnswers :
       ApproveCommitThrows(p, applied, res)
  \/ \E p \in CallSlots, id \in BookingIds : RejectCall(p, id)
  \/ \E p \in Procs : RejectFind(p)
  \/ \E p \in Procs, fail \in BOOLEAN : RejectSave(p, fail)

Spec == Init /\ [][Next]_vars

\* ---------------------------------------------------------------- two calls racing
\* Two calls are dispatched together against a fresh inventory (rows A and K,
\* two seats each, all available) holding two pending bookings; no other
\* request arrives and the store refuses no write.
RaceSeatsRaw ==
  { <<"A", "1">>,
    <<"k", "1">>,
    <<"K", "1", ",", " ", "a", "1">>,
    <<"a", "2", ",", "K", "2">> }

RaceRows == << <<"A">>, <<"K">> >>

RaceSeats == ApplyUpdates(<<>>, BulkOf(RaceRows, 2), 1, {})

RaceInit ==
  /\ seats = RaceSeats
  /\ \E r1, r2 \in RaceSeatsRaw :
       bookings = << BookingSchema(GoodEmail, GoodPhone, 50, ParseSeatLabels(r1), 1),
                     BookingSchema(GoodEmail, GoodPhone, 50, ParseSeatLabels(r2), 2) >>
  /\ files = {1, 2}
  /\ intake = IdleIntake
  /\ initCalls = [s \in InitSlots |->
                    IF s = 1 THEN InitDone(Scheme(RaceRows, 2), Len(RaceSeats)) ELSE IdleInit]
  /\ \E o1, o2 \in {"approve", "reject"}, i1, i2 \in {1, 2} :
       proc = [p \in Procs |->
                 [IdleProc EXCEPT !.op = IF p = 1 THEN o1 ELSE o2, !.pc = "find",
                                  !.id = IF p = 1 THEN i1 ELSE i2]]

RaceNext ==
  \/ \E p \in Procs : ApproveFind(p)
  \/ \E p \in Procs : ApproveFindSeats(p)
  \/ \E p \in Procs : ApproveSaveSeat(p, FALSE)
  \/ \E p \in Procs : ApproveSaveBooking(p, FALSE)
  \/ \E p \in Procs : ApproveCommit(p)
  \/ \E p \in Procs : RejectFind(p)
  \/ \E p \in Procs : RejectSave(p, FALSE)

SpecRace == RaceInit /\ [][RaceNext]_vars

\* ---------------------------------------------------------------- inventory repeated
\* Inventory calls one after another, any number of them, with bookings
\* submitted and approved and seats occupied and released by hand before,
\* between and during them; the store refuses no write.
RepeatSeatsRaw == { <<"A", "1">>, <<"K", "1", ",", " ", "a", "1">> }

RepeatNext ==
  \/ \E s \in InitSlots, rows \in RowLists, perRow \in PerRowInputs :
       InitializeInventory(s, rows, perRow)
  \/ \E s \in InitSlots : \E k \in initCalls[s].pending : BulkUpsert(s, k)
  \/ \E s \in InitSlots : CountDocuments(s)
  \/ \E l \in LabelInputs : OccupySeat(l)
  \/ \E l \in LabelInputs : ReleaseSeat(l)
  \/ \E raw \in RepeatSeatsRaw : CreatePendingBooking(GoodRequest(raw))
  \/ UploadFinish
  \/ BookingCreate(FALSE)
  \/ \E p \in CallSlots, id \in BookingIds : ApproveCall(p, id)
  \/ \E p \in Procs : ApproveFind(p)
  \/ \E p \in Procs : ApproveFindSeats(p)
  \/ \E p \in Procs : ApproveSaveSeat(p, FALSE)
  \/ \E p \in Procs : ApproveSaveBooking(p, FALSE)
  \/ \E p \in Procs : ApproveCommit(p)

SpecRepeat == Init /\ [][RepeatNext]_vars

\* ---------------------------------------------------------------- inventory alone
\* One inventory call on the empty registry with no other request beside it,
\* its updates applied in every order: a call of InventorySchemes from its
\* dispatch, or a call of CallsInFlight from the state in which the store has
\* applied all of its updates but the listed ones (an unordered bulk may
\* apply them so).
TakenUp(c) ==
  [IdleInit EXCEPT !.pc = "bulk", !.req = Scheme(c[1], c[2]),
                   !.bulk = BulkOf(UpperRows(c[1]), c[2]), !.pending = c[3]]

InventoryInit ==
  /\ bookings = <<>>
  /\ proc = [p \in Procs |-> IdleProc]
  /\ files = {}
  /\ intake = IdleIntake
  /\ \/ seats = <<>> /\ initCalls = [s \in InitSlots |-> IdleInit]
     \/ \E c \in CallsInFlight :
          /\ seats = ApplyUpdates(<<>>, BulkOf(UpperRows(c[1]), c[2]), 1, c[3])
          /\ initCalls = [s \in InitSlots |-> IF s = 1 THEN TakenUp(c) ELSE IdleInit]

InventoryNext ==
  \/ \E sch \in InventorySchemes :
       initCalls[1] = IdleInit /\ InitializeInventory(1, sch[1], sch[2])
  \/ \E s \in InitSlots : \E k \in initCalls[s].pending : BulkUpsert(s, k)
  \/ \E s \in InitSlots : CountDocuments(s)

SpecInventory == InventoryInit /\ [][InventoryNext]_vars

\* ---------------------------------------------------------------- intake alone
\* Submissions of every kind arrive one after another against a fresh
\* inventory (rows A and K, two seats each); the upload may fail and the store
\* may refuse the booking.
IntakeInit ==
  /\ seats = RaceSeats
  /\ bookings = <<>>
  /\ proc = [p \in Procs |-> IdleProc]
  /\ files = {}
  /\ intake = IdleIntake
  /\ initCalls = [s \in InitSlots |->
                    IF s = 1 THEN InitDone(Scheme(RaceRows, 2), Len(RaceSeats)) ELSE IdleInit]

IntakeNext ==
  \/ \E req \in IntakeRequests : CreatePendingBooking(req)
  \/ UploadFinish
  \/ \E fail \in BOOLEAN : BookingCreate(fail)
  \/ UploadError

SpecIntake == IntakeInit /\ [][IntakeNext]_vars

\* ---------------------------------------------------------------- observations
LabelsOf(b) == Range(bookings[b].seatLabels)

BothDone == \A p \in Procs : proc[p].pc = "done"

\* Both slots run approve, on the bookings b1 (slot 1) and b2 (slot 2).
TwoApproves(b1, b2) ==
  /\ proc[1].op = "approve" /\ proc[1].id = b1
  /\ proc[2].op = "approve" /\ proc[2].id = b2

\* Ids of the seats that carry one of booking b's requested labels.
SeatsRequested(b) == {i \in 1..Len(seats) : seats[i].label \in LabelsOf(b)}

\* Seat i is occupied and linked to booking b.
HeldBy(i, b) == seats[i].status = "occupied" /\ seats[i].occupiedByBookingId = b

\* ---------------------------------------------------------------- claims
\* C3: when two approve calls for two different pending bookings that share a
\* requested seat label (all requested seats existing and available) have both
\* answered, one answered 200, the other answered 409 naming a shared label,
\* and every shared seat is held by the winner's booking.
C3_OverlapLoserGetsConflict ==
  \A b1, b2 \in {1, 2} :
    ( /\ b1 # b2
      /\ TwoApproves(b1, b2)
      /\ LabelsOf(b1) \cap LabelsOf(b2) # {}
      /\ BothDone )
    => \E w, l \in Procs :
         /\ w # l
         /\ proc[w].res.code = 200
         /\ proc[l].res.code = 409
         /\ Range(proc[l].res.labels) \cap LabelsOf(b1) \cap LabelsOf(b2) # {}
         /\ \A i \in SeatsRequested(b1) \cap SeatsRequested(b2) : HeldBy(i, proc[w].id)

\* C4: when a reject call and an approve call on the same pending booking have
\* both answered, exactly one answered 200 and the other answered 400 with the
\* booking's status, and the booking is not rejected while a seat is linked to it.
C4_ApproveRejectOneWins ==
  \A a, r \in Procs :
    ( /\ proc[a].op = "approve" /\ proc[r].op = "reject"
      /\ proc[a].id = proc[r].id
      /\ BothDone )
    => /\ \/ proc[a].res.code = 200 /\ proc[r].res.code = 400
                /\ proc[r].res.error = "Booking status is"
          \/ proc[r].res.code = 200 /\ proc[a].res.code = 400
                /\ proc[a].res.error = "Booking status is"
       /\ ~ ( /\ bookings[proc[a].id].status = "rejected"
              /\ \E i \in 1..Len(seats) : HeldBy(i, proc[a].id) )

\* C5: when two approve calls on the same pending booking have both answered,
\* exactly one answered 200 and the other answered 400 reporting the status
\* approved.
C5_SameBookingLoserInvalidState ==
  \A b \in {1, 2} :
    (TwoApproves(b, b) /\ BothDone)
    => \E w, l \in Procs :
         /\ w # l
         /\ proc[w].res.code = 200
         /\ proc[l].res.code = 400
         /\ proc[l].res.error = "Booking status is"
         /\ proc[l].res.status = "approved"

\* C8: two approve calls for two different pending bookings with disjoint
\* requested labels never answer anything but 200, and once both have answered
\* each booking is approved, its seatIds are exactly its requested seats, and
\* each of those seats is held by it.
C8_DisjointBothSucceed ==
  \A b1, b2 \in {1, 2} :
    ( /\ b1 # b2
      /\ TwoApproves(b1, b2)
      /\ LabelsOf(b1) \cap LabelsOf(b2) = {} )
    => /\ \A p \in Procs : proc[p].res.code \in {0, 200}
       /\ BothDone =>
            \A b \in {b1, b2} :
              /\ bookings[b].status = "approved"
              /\ Range(bookings[b].seatIds) = SeatsRequested(b)
              /\ \A i \in SeatsRequested(b) : HeldBy(i, b)

\* C8 witness: both calls answered 200 on disjoint two-seat and one-seat requests.
C8_Witness ==
  /\ TwoApproves(1, 2)
  /\ LabelsOf(1) \cap LabelsOf(2) = {}
  /\ Cardinality(LabelsOf(1)) = 2
  /\ BothDone
  /\ \A p \in Procs : proc[p].res.code = 200

\* Slot p takes a step of its approve call (no other action changes a slot's
\* position or its count of saved seats).
ApproveStepOf(p) ==
  /\ proc[p].op = "approve"
  /\ proc[p].pc \in {"find"} \cup TxnPcs
  /\ <<proc'[p].pc, proc'[p].saved>> # <<proc[p].pc, proc[p].saved>>

\* Slot p's approve call commits and answers 200 in this step.
ApproveSucceeds(p) ==
  ApproveStepOf(p) /\ proc[p].pc = "commit" /\ proc'[p].res.code = 200

\* C1: no occupied seat appears in the seatIds of two different approved
\* bookings.
C1_NoSeatHeldByTwoBookings ==
  \A i \in 1..Len(seats) :
    seats[i].status = "occupied" =>
      \A b1, b2 \in 1..Len(bookings) :
        ( /\ bookings[b1].status = "approved" /\ i \in Range(bookings[b1].seatIds)
          /\ bookings[b2].status = "approved" /\ i \in Range(bookings[b2].seatIds) )
        => b1 = b2

\* C2: every step of an approve call except the commit that answers 200 leaves
\* the seat collection and the booking collection as they were; so a call that
\* fails (404, 400, 409, a refused seat write or booking write, or a commit
\* that throws) has changed no seat's status or occupant and no booking.
C2_FailedApproveChangesNothing ==
  [][\A p \in Procs :
       (ApproveStepOf(p) /\ ~ApproveSucceeds(p)) => (seats' = seats /\ bookings' = bookings)]_vars

\* C6: a booking whose status is approved or rejected keeps that status in
\* every step.
C6_TerminalStatusKept ==
  [][\A b \in 1..Len(bookings) :
       bookings[b].status # "pending" => bookings'[b].status = bookings[b].status]_vars

\* C7: a seat's occupant link is non-null exactly when its status is occupied.
C7_LinkIffOccupied ==
  \A i \in 1..Len(seats) :
    (seats[i].occupiedByBookingId # NULL) <=> (seats[i].status = "occupied")

\* C9: approve answers by the first failing check, in the order booking exists
\* (404), booking pending (400 with the status), every label resolves (400
\* seats not found), every resolved seat available (409); it goes on only when
\* all hold.
C9_ChecksInOrder ==
  [][\A p \in Procs : ApproveStepOf(p) =>
       LET id == proc[p].id
           r == proc'[p].res
       IN /\ proc[p].pc = "find" =>
               IF id \notin 1..Len(bookings)
               THEN r.code = 404 /\ r.error = "Booking not found"
               ELSE IF bookings[id].status # "pending"
               THEN r.code = 400 /\ r.error = "Booking status is"
                      /\ r.status = bookings[id].status
               ELSE r.code = 0
          /\ proc[p].pc = "findSeats" =>
               LET snap == proc[p].snapSeats
                   unresolved == {l \in LabelsOf(id) : \A i \in 1..Len(snap) : snap[i].label # l}
                   taken == {snap[i].label : i \in {j \in 1..Len(snap) :
                               snap[j].label \in LabelsOf(id) /\ snap[j].status # "available"}}
               IN IF unresolved # {}
                  THEN r.code = 400 /\ r.error = "Seats not found"
                  ELSE IF taken # {}
                  THEN r.code = 409 /\ r.error = "Seats already occupied"
                  ELSE r.code = 0]_vars

\* C9 witness: a call answered seats-not-found for a booking one of whose
\* requested seats exists and is occupied.
C9_Witness ==
  \E p \in Procs :
    /\ proc[p].op = "approve" /\ proc[p].pc = "done"
    /\ proc[p].res.code = 400 /\ proc[p].res.error = "Seats not found"
    /\ \E i \in SeatsRequested(proc[p].id) : seats[i].status = "occupied"

\* C10: when approve succeeds, the i-th entry of the booking's seatIds is the
\* seat carrying the i-th requested label.
C10_SeatIdsInRequestOrder ==
  [][\A p \in Procs : ApproveSucceeds(p) =>
       LET b == proc[p].id
           labels == bookings[b].seatLabels
           ids == bookings'[b].seatIds
       IN /\ Len(ids) = Len(labels)
          /\ \A k \in 1..Len(labels) : seats'[ids[k]].label = labels[k]]_vars

\* C10, amended: when approve succeeds, every requested label names a seat,
\* each such seat is occupied and linked to the booking, the booking is
\* approved, and its seatIds list exactly those seats, each once (a label
\* requested twice gets one entry); the order of the entries is the order in
\* which the store returned the seats, which need not be that of the request.
C10_SeatsHeldAndListed ==
  [][\A p \in Procs : ApproveSucceeds(p) =>
       LET b == proc[p].id
           labels == LabelsOf(b)
           ids == bookings'[b].seatIds
           named == {i \in 1..Len(seats') : seats'[i].label \in labels}
       IN /\ \A l \in labels : \E i \in named : seats'[i].label = l
          /\ \A i \in named : seats'[i].status = "occupied"
                                /\ seats'[i].occupiedByBookingId = b
          /\ bookings'[b].status = "approved"
          /\ Range(ids) = named
          /\ Len(ids) = Cardinality(labels)
          /\ ids = proc[p].found]_vars

\* C10 witness: a booking that asked for K1 then A1 is approved and holds
\* both; its seatIds name A1 first.
C10_Witness ==
  \E b \in 1..Len(bookings) :
    /\ bookings[b].status = "approved"
    /\ bookings[b].seatLabels = << <<"K", "1">>, <<"A", "1">> >>
    /\ Len(bookings[b].seatIds) = 2
    /\ seats[bookings[b].seatIds[1]].label = <<"A", "1">>
    /\ \A k \in 1..2 : HeldBy(bookings[b].seatIds[k], b)

\* Slot p takes a step of its reject call.
RejectStepOf(p) ==
  /\ proc[p].op = "reject"
  /\ proc[p].pc \in {"find", "save"}
  /\ proc'[p] # proc[p]

\* C12: no step of a reject call changes the seat collection; a reject that
\* names no stored booking answers 404 and one that finds the booking approved
\* or rejected answers 400 with that status, both leaving every booking as it
\* was; and a reject answers 200 only by setting the booking to rejected.
C12_RejectChangesNoSeat ==
  [][\A p \in Procs : RejectStepOf(p) =>
       LET id == proc[p].id
           r == proc'[p].res
       IN /\ seats' = seats
          /\ proc[p].pc = "find" /\ id \notin 1..Len(bookings) =>
               r.code = 404 /\ r.error = "Booking not found" /\ bookings' = bookings
          /\ proc[p].pc = "find" /\ id \in 1..Len(bookings)
               /\ bookings[id].status \in {"approved", "rejected"} =>
               /\ r.code = 400 /\ r.error = "Booking status is"
               /\ r.status = bookings[id].status
               /\ bookings' = bookings
          /\ r.code = 200 =>
               /\ bookings'[id].status = "rejected"
               /\ \A b \in 1..Len(bookings) : b # id => bookings'[b] = bookings[b]]_vars

\* C12 witness: a reject has answered 400 on an approved booking whose seat is
\* still occupied and linked to it.
C12_Witness ==
  \E p \in Procs :
    /\ proc[p].op = "reject" /\ proc[p].pc = "done"
    /\ proc[p].res.code = 400 /\ proc[p].res.status = "approved"
    /\ proc[p].id \in 1..Len(bookings)
    /\ bookings[proc[p].id].status = "approved"
    /\ \E i \in Range(bookings[proc[p].id].seatIds) : HeldBy(i, proc[p].id)

\* C16: when approve answers seats-not-found, the labels it reports are
\* exactly the requested labels no seat of the call's snapshot carries; when it
\* answers already-occupied, they are exactly the requested labels whose seat
\* in the snapshot is not available; and the answering step changes no seat.
C16_ReportedLabelsExact ==
  [][\A p \in Procs : ApproveStepOf(p) /\ proc[p].pc = "findSeats" =>
       LET id == proc[p].id
           r == proc'[p].res
           snap == proc[p].snapSeats
           exists(l) == \E i \in 1..Len(snap) : snap[i].label = l
           free(l) == \E i \in 1..Len(snap) :
                        snap[i].label = l /\ snap[i].status = "available"
       IN /\ r.error = "Seats not found" =>
               Range(r.labels) = {l \in LabelsOf(id) : ~exists(l)}
          /\ r.error = "Seats already occupied" =>
               Range(r.labels) = {l \in LabelsOf(id) : exists(l) /\ ~free(l)}
          /\ seats' = seats]_vars

\* C16 witness: a request for A1 and Z9 was answered seats-not-found naming
\* only Z9 while A1 exists and is available.
C16_Witness ==
  \E p \in Procs :
    /\ proc[p].op = "approve" /\ proc[p].pc = "done"
    /\ proc[p].res.error = "Seats not found"
    /\ proc[p].res.labels = << <<"Z", "9">> >>
    /\ LabelsOf(proc[p].id) = {<<"A", "1">>, <<"Z", "9">>}
    /\ \E i \in 1..Len(seats) :
         seats[i].label = <<"A", "1">> /\ seats[i].status = "available"

\* C16 second witness: a request for K1 and A1 was answered already-occupied
\* naming only K1 while A1 is available.
C16_WitnessConflict ==
  \E p \in Procs :
    /\ proc[p].op = "approve" /\ proc[p].pc = "done"
    /\ proc[p].res.error = "Seats already occupied"
    /\ proc[p].res.labels = << <<"K", "1">> >>
    /\ LabelsOf(proc[p].id) = {<<"A", "1">>, <<"K", "1">>}
    /\ \E i \in 1..Len(seats) :
         seats[i].label = <<"A", "1">> /\ seats[i].status = "available"

\* C17: the step in which approve succeeds leaves every seat whose label the
\* booking did not request, and every other booking, exactly as they were,
\* adds and removes no seat or booking, and leaves every requested seat
\* occupied and linked to the booking.
C17_ApproveTouchesOnlyRequested ==
  [][\A p \in Procs : ApproveSucceeds(p) =>
       LET id == proc[p].id
       IN /\ Len(seats') = Len(seats) /\ Len(bookings') = Len(bookings)
          /\ \A i \in 1..Len(seats) :
               IF seats[i].label \in LabelsOf(id)
               THEN /\ seats'[i].status = "occupied"
                    /\ seats'[i].occupiedByBookingId = id
               ELSE seats'[i] = seats[i]
          /\ \A b \in 1..Len(bookings) : b # id => bookings'[b] = bookings[b]]_vars

\* C17 witness: an approve has answered 200 while a seat it did not request is
\* still available and another booking is still pending.
C17_Witness ==
  \E p \in Procs :
    /\ proc[p].op = "approve" /\ proc[p].pc = "done" /\ proc[p].res.code = 200
    /\ bookings[proc[p].id].status = "approved"
    /\ \E i \in 1..Len(seats) :
         seats[i].label \notin LabelsOf(proc[p].id) /\ seats[i].status = "available"
    /\ \E b \in 1..Len(bookings) : b # proc[p].id /\ bookings[b].status = "pending"

\* C19: every seat whose occupant link is non-null points to a stored booking
\* that is approved and lists the seat in its seatIds.
C19_LinkedSeatHasApprovedBooking ==
  \A i \in 1..Len(seats) :
    LET b == seats[i].occupiedByBookingId
    IN b # NULL =>
         /\ b \in 1..Len(bookings)
         /\ bookings[b].status = "approved"
         /\ i \in Range(bookings[b].seatIds)

\* C20: every seat in the seatIds of an approved booking is occupied and
\* linked to that booking.
C20_ApprovedBookingHoldsItsSeats ==
  \A b \in 1..Len(bookings) :
    bookings[b].status = "approved" =>
      \A i \in Range(bookings[b].seatIds) : HeldBy(i, b)

\* The labels each seats text of SeatsRawInputs names, in the order written.
SubmittedLabels(seatsRaw) ==
  CASE seatsRaw = <<"A", "1">> -> << <<"A", "1">> >>
    [] seatsRaw = <<"K", "1", ",", " ", "a", "1">> -> << <<"K", "1">>, <<"A", "1">> >>
    [] seatsRaw = <<"a", "1", ",", "A", "1">> -> << <<"A", "1">>, <<"A", "1">> >>
    [] seatsRaw = <<"A", "1", ",", "Z", "9">> -> << <<"A", "1">>, <<"Z", "9">> >>

\* C13: a well-formed submission is taken whatever seats it names; the step
\* that answers 201 appends one booking with status pending, the submitted
\* labels in the order written and empty seatIds, and answers its id; no
\* intake step changes a seat or a booking already stored.
C13_CreateChecksNoSeat ==
  [][intake' # intake =>
       /\ seats' = seats
       /\ \A b \in 1..Len(bookings) : bookings'[b] = bookings[b]
       /\ intake.pc = "idle" =>
            /\ bookings' = bookings
            /\ intake'.req \in {GoodRequest(raw) : raw \in SeatsRawInputs} =>
                 intake'.pc = "uploading"
       /\ intake.pc = "creating" /\ intake'.res.code = 201 =>
            /\ Len(bookings') = Len(bookings) + 1
            /\ intake'.res.bookingId = Len(bookings')
            /\ bookings'[Len(bookings')].status = "pending"
            /\ bookings'[Len(bookings')].seatIds = <<>>
            /\ bookings'[Len(bookings')].seatLabels = SubmittedLabels(intake.req.seats)]_vars

\* C13 witness: a submission for A1 and Z9 was answered 201 and stored as
\* pending while seat A1 is occupied and no seat Z9 exists.
C13_Witness ==
  /\ intake.res.code = 201
  /\ intake.res.bookingId = Len(bookings)
  /\ bookings[Len(bookings)].status = "pending"
  /\ bookings[Len(bookings)].seatLabels = << <<"A", "1">>, <<"Z", "9">> >>
  /\ \E i \in 1..Len(seats) : seats[i].label = <<"A", "1">> /\ seats[i].status = "occupied"
  /\ \A i \in 1..Len(seats) : seats[i].label # <<"Z", "9">>

\* A submission with an acceptable file and every field present whose amount
\* is a number not above zero, whose email or phone is not of the required
\* form, or whose seats text names no seat.
Malformed(req) ==
  /\ req.file = PngFile
  /\ req.email # <<>> /\ req.phone # <<>> /\ req.seats # <<>>
  /\ \/ req.amount \in {<<"0">>, <<"-", "5">>}
     \/ req.email = <<"a", "@", "b">>
     \/ req.phone = <<"1", "2", "3">>
     \/ req.seats \in {<<",">>, <<" ", ",", ",">>}

\* C14: every malformed submission is answered 400 and no booking is created
\* by it.
C14_MalformedAnswered400 ==
  [][intake' # intake /\ intake'.pc = "idle" /\ Malformed(intake'.req) =>
       intake'.res.code = 400 /\ bookings' = bookings]_vars

\* C14, the part the handler keeps: a submission lacking a field, or with
\* amount zero or not a number, is answered 400 before anything is stored.
C14_MissingFieldAnswered400 ==
  [][intake' # intake /\ intake.pc = "idle" /\ intake'.req.file \in {PngFile, NoFile}
       /\ ( \/ intake'.req.email = <<>> \/ intake'.req.seats = <<>>
            \/ intake'.req.amount \in {<<"0">>, <<"x">>}
            \/ intake'.req.file = NoFile ) =>
       /\ intake'.pc = "idle" /\ intake'.res.code = 400
       /\ bookings' = bookings /\ files' = files]_vars

\* C18: every booking's screenshotFileId names a stored file, a step in which
\* the upload fails creates no booking, no booking is created while the upload
\* is still running, and a booking is created only by a submission whose file
\* is already stored.
C18_BookingOnlyAfterFileStored ==
  /\ [](\A b \in 1..Len(bookings) : bookings[b].screenshotFileId \in files)
  /\ [][ /\ intake.pc = "uploading" /\ intake'.res.error = "Failed to upload screenshot" =>
              bookings' = bookings
         /\ intake.pc = "uploading" => bookings' = bookings
         /\ Len(bookings') > Len(bookings) =>
              /\ intake.pc = "creating"
              /\ intake.fileId \in files
              /\ bookings'[Len(bookings')].screenshotFileId = intake.fileId ]_vars

\* C18 witness: an upload has failed after an earlier submission was stored;
\* the only booking is the earlier one and its file is stored.
C18_Witness ==
  /\ intake.pc = "idle" /\ intake.res.error = "Failed to upload screenshot"
  /\ Len(bookings) = 1
  /\ bookings[1].screenshotFileId \in files

\* The inventory call of slot s answers in this step.
InitAnswers(s) == initCalls[s].pc = "count" /\ initCalls'[s].pc = "idle"

\* The store applies an update of the bulk of slot s in this step.
InitWrites(s) ==
  initCalls[s].pc = "bulk" /\ initCalls'[s].pending # initCalls[s].pending

\* The labels the bulk of a call spells.
BulkLabels(bulk) == {SeatLabel(bulk[k][1], bulk[k][2]) : k \in 1..Len(bulk)}

\* The label the update of the bulk of slot s applied in this step writes.
WrittenLabel(s) ==
  LET k == CHOOSE j \in initCalls[s].pending : j \notin initCalls'[s].pending
  IN SeatLabel(initCalls[s].bulk[k][1], initCalls[s].bulk[k][2])

\* C11: every write of an inventory call, made in any reachable state, leaves
\* the label, status and occupant link of every seat already stored as they
\* were (only row, number and tier may differ), removes no seat, stores no
\* second seat for a label already stored, and changes no booking; when its
\* last write is applied a seat is stored for every label of its scheme; the
\* call answers the number of seats stored, changing no seat and no booking;
\* and a call with the same scheme as the call before it answers the same
\* total.
C11_InitKeepsSeatState ==
  [][ /\ \A s \in InitSlots : InitWrites(s) =>
            /\ Len(seats') >= Len(seats)
            /\ \A i \in 1..Len(seats) :
                 /\ seats'[i].label = seats[i].label
                 /\ seats'[i].status = seats[i].status
                 /\ seats'[i].occupiedByBookingId = seats[i].occupiedByBookingId
            /\ (\E i \in 1..Len(seats) : seats[i].label = WrittenLabel(s)) =>
                 Len(seats') = Len(seats)
            /\ bookings' = bookings
            /\ initCalls'[s].pc = "count" =>
                 BulkLabels(initCalls[s].bulk)
                   \subseteq {seats'[j].label : j \in 1..Len(seats')}
      /\ \A s \in InitSlots : InitAnswers(s) =>
            /\ initCalls'[s].total = Len(seats)
            /\ seats' = seats /\ bookings' = bookings
            /\ initCalls[s].prev.req = initCalls[s].req =>
                 initCalls'[s].total = initCalls[s].prev.total ]_vars

\* C11 witness: the second of two calls with the same scheme has answered 2
\* as the first did; one of its updates found a seat occupied by booking b,
\* which is approved and still holds that seat.
C11_Witness ==
  \E s \in InitSlots, b \in 1..Len(bookings) :
    /\ initCalls[s].pc = "idle" /\ initCalls[s].total = 2
    /\ initCalls[s].prev = [req |-> initCalls[s].req, total |-> 2]
    /\ b \in initCalls[s].held
    /\ bookings[b].status = "approved"
    /\ \E i \in 1..Len(seats) : HeldBy(i, b)
    /\ \E i \in 1..Len(seats) : seats[i].status = "available"

\* The rows and the seats per row of a bulk.
BulkRows(bulk) == {bulk[k][1] : k \in 1..Len(bulk)}

BulkPerRow(bulk) == bulk[Len(bulk)][2]

\* The update of the bulk of slot s applied in this step leaves a seat with
\* the label row+number, the update's row and number and the tier of the row
\* (premium exactly for the rows K to T); a seat it inserts is available with
\* a null occupant; and no label is stored twice.
UpsertStoresItsSeat(s) ==
  LET k == CHOOSE j \in initCalls[s].pending : j \notin initCalls'[s].pending
      r == initCalls[s].bulk[k][1]
      n == initCalls[s].bulk[k][2]
  IN /\ \E i \in 1..Len(seats') :
          /\ seats'[i].label = r \o NumToStr(n)
          /\ seats'[i].row = r /\ seats'[i].number = n
          /\ seats'[i].type =
               IF r \in {<<"K">>, <<"L">>, <<"M">>, <<"N">>, <<"O">>,
                         <<"P">>, <<"Q">>, <<"R">>, <<"S">>, <<"T">>}
               THEN "premium" ELSE "primary"
          /\ i > Len(seats) =>
               seats'[i].status = "available" /\ seats'[i].occupiedByBookingId = NULL
     /\ \A i, j \in 1..Len(seats') : seats'[i].label = seats'[j].label => i = j

\* The last update of the bulk of slot s is applied in this step.
BulkDone(s) == InitWrites(s) /\ initCalls'[s].pc = "count"

\* C15: an inventory call on the empty registry with rows R and n per row
\* stores |distinct R| * n seats, one per (row, number) pair with label
\* row+number, every one available with a null occupant and with tier premium
\* exactly for the rows K to T, and answers the number of seats stored.
C15_OneSeatPerRowAndNumber ==
  [][\A s \in InitSlots :
       /\ InitWrites(s) => UpsertStoresItsSeat(s)
       /\ BulkDone(s) =>
            LET bulk == initCalls[s].bulk
            IN /\ Len(seats') = Cardinality(BulkRows(bulk)) * BulkPerRow(bulk)
               /\ \A k \in 1..Len(bulk) :
                    \E i \in 1..Len(seats') :
                      seats'[i].row = bulk[k][1] /\ seats'[i].number = bulk[k][2]
               /\ \A i \in 1..Len(seats') :
                    seats'[i].status = "available" /\ seats'[i].occupiedByBookingId = NULL
       /\ InitAnswers(s) => initCalls'[s].total = Len(seats')]_vars

\* C15, amended: an inventory call on the empty registry stores one seat per
\* distinct label row+number of the scheme, so |distinct R| * n seats unless
\* two (row, number) pairs spell the same label; every seat carries a
\* (row, number) pair of the scheme that spells its label, is available with
\* a null occupant, and is premium exactly for the rows K to T; the call
\* answers the number of seats stored.
C15_OneSeatPerLabel ==
  [][\A s \in InitSlots :
       /\ InitWrites(s) => UpsertStoresItsSeat(s)
       /\ BulkDone(s) =>
            LET bulk == initCalls[s].bulk
                labels == BulkLabels(bulk)
            IN /\ Len(seats') = Cardinality(labels)
               /\ {seats'[i].label : i \in 1..Len(seats')} = labels
               /\ Cardinality(labels) = Cardinality(Range(bulk)) =>
                    Len(seats') = Cardinality(BulkRows(bulk)) * BulkPerRow(bulk)
               /\ \A i \in 1..Len(seats') :
                    /\ \E k \in 1..Len(bulk) :
                         seats'[i].row = bulk[k][1] /\ seats'[i].number = bulk[k][2]
                    /\ seats'[i].label = seats'[i].row \o NumToStr(seats'[i].number)
                    /\ seats'[i].status = "available"
                    /\ seats'[i].occupiedByBookingId = NULL
                    /\ seats'[i].type = "premium" <=>
                         seats'[i].row \in {<<"K">>, <<"L">>, <<"M">>, <<"N">>, <<"O">>,
                                            <<"P">>, <<"Q">>, <<"R">>, <<"S">>, <<"T">>}
       /\ InitAnswers(s) => initCalls'[s].total = Len(seats')]_vars

\* C15 witness: the call with rows A, B and 5 per row on the empty registry
\* answered 10 and the registry holds A1..A5, B1..B5, all available.
C15_Witness ==
  /\ \E s \in InitSlots : initCalls[s].total = 10
  /\ Len(seats) = 10
  /\ {seats[i].label : i \in 1..Len(seats)} =
       {r \o <<d>> : r \in {<<"A">>, <<"B">>}, d \in {"1", "2", "3", "4", "5"}}
  /\ \A i \in 1..Len(seats) :
       seats[i].status = "available" /\ seats[i].type = "primary"

====
